---- MODULE Spec2Model ----
(***************************************************************************)
(* api_yamdb: the signup / confirmation-code / token flow of               *)
(* api/serializers.py and the permission-gated review, comment and catalog *)
(* views of api/views.py, as a state machine over the database tables, the *)
(* outgoing mail, the requests in flight and the last response.            *)
(***************************************************************************)
EXTENDS Integers, FiniteSets, Sequences, TLC

VARIABLES
    users,      \* the User table: a set of rows
    nextPk,     \* the next AutoField value of the User table
    now,        \* the clock the token generator reads
    outbox,     \* the confirmation mails handed to the mail backend
    sreq,       \* per worker: the signup request between is_valid() and save()
    reviews,    \* the Review table
    comments,   \* the Comment table
    nextId,     \* the next AutoField value of the Title / Review / Comment tables
    rreq,       \* per worker: the create-review request between is_valid() and save()
    catalog,    \* the Title / Category / Genre tables, by kind
    resp        \* the response to the request handled last

vars == <<users, nextPk, now, outbox, sreq, reviews, comments, nextId, rreq, catalog, resp>>

authVars    == <<users, nextPk, now, outbox, sreq>>
contentVars == <<reviews, comments, nextId, rreq>>

----------------------------------------------------------------------------
(* Bounds of the model *)

MaxTime == 2
NumWorkers == 2
MaxReviews == 1
MaxComments == 1
MaxTitles == 2

(* settings.PASSWORD_RESET_TIMEOUT, in clock ticks: check_token refuses a  *)
(* token whose timestamp is more than this far in the past.                *)
Timeout == 1

Usernames == {"me", "alice", "bob"}
Emails    == {"a@x.com", "b@x.com"}
Workers   == 1..NumWorkers

----------------------------------------------------------------------------
(* The User table *)

\* User.objects.filter(...).exists() of the two pre-checks of validate()
EmailTaken(us, username, email) ==
    \E x \in us : x.email = email /\ x.username # username

UsernameTaken(us, username, email) ==
    \E x \in us : x.username = username /\ x.email # email

\* validate() without the check of the reserved name
validate_no_me_check(us, username, email) ==
    IF EmailTaken(us, username, email) THEN "ValidationError"
    ELSE IF UsernameTaken(us, username, email) THEN "ValidationError"
    ELSE "ok"

\* UserSignupSerializer.validate: "ok" or the rejection
UserSignupSerializer_validate(us, username, email) ==
    IF username = "me" THEN "ValidationError"
    ELSE IF EmailTaken(us, username, email) THEN "ValidationError"
    ELSE IF UsernameTaken(us, username, email) THEN "ValidationError"
    ELSE "ok"

\* The rows get_or_create's lookup (username=..., email=...) finds
Lookup(us, username, email) ==
    {x \in us : x.username = username /\ x.email = email}

\* A User table whose only unique column is username
StoreAcceptsUserNoEmailCheck(us, username, email) ==
    \A x \in us : x.username # username

\* The unique constraints of the User table on username and on email
StoreAcceptsUser(us, username, email) ==
    \A x \in us : x.username # username /\ x.email # email

UserByName(us, username) ==
    CHOOSE x \in us : x.username = username

HasUser(us, username) ==
    \E x \in us : x.username = username

----------------------------------------------------------------------------
(* default_token_generator *)

\* _make_hash_value: the user state a token is bound to, with the timestamp
\* (the password, which no request of this API sets, is left out)
HashValue(user, ts) ==
    <<user.pk, user.last_login, user.email, ts>>

\* make_token(user): the timestamp and the keyed hash over the hash value
make_token(user, t) ==
    [ts |-> t, hash |-> HashValue(user, t)]

\* check_token(user, token): the hash recomputed for the token's timestamp
\* matches, and the timestamp is not older than the timeout
check_token(user, token, t) ==
    /\ token.hash = HashValue(user, token.ts)
    /\ ~(t - token.ts > Timeout)

----------------------------------------------------------------------------
Init ==
    /\ users = {}
    /\ nextPk = 1
    /\ now = 0
    /\ outbox = {}
    /\ sreq = [w \in Workers |-> [pc |-> "idle"]]
    /\ reviews = {}
    /\ comments = {}
    /\ nextId = [k \in {"title", "review", "comment"} |-> 1]
    /\ rreq = [w \in Workers |-> [pc |-> "idle"]]
    /\ catalog = [k \in {"title", "category", "genre"} |-> {}]
    /\ resp = [op |-> "none"]

\* The clock advances
Tick ==
    /\ now < MaxTime
    /\ now' = now + 1
    /\ UNCHANGED <<users, nextPk, outbox, sreq, contentVars, catalog, resp>>

----------------------------------------------------------------------------
(* POST /signup: UserSignupView.create *)

\* The row User.objects.create() inserts: the model's defaults for the
\* fields the request does not give
NewUser(pk, username, email) ==
    [pk |-> pk, username |-> username, email |-> email,
     is_active |-> TRUE, last_login |-> 0, role |-> "user"]

\* User.objects.get_or_create(username=..., email=...): the row found, or
\* an insert, which the table's unique constraints may refuse
get_or_create(us, username, email) ==
    IF Lookup(us, username, email) # {}
    THEN [result |-> "got"]
    ELSE IF StoreAcceptsUser(us, username, email)
    THEN [result |-> "created"]
    ELSE [result |-> "IntegrityError"]

SignupResp(username, email, status, error, mail) ==
    [op |-> "signup", username |-> username, email |-> email,
     status |-> status, error |-> error, mail |-> mail]

\* serializer.is_valid(raise_exception=True): validate() on the request data
SignupValidate(w, username, email) ==
    /\ sreq[w].pc = "idle"
    /\ LET r == UserSignupSerializer_validate(users, username, email) IN
       IF r = "ok"
       THEN /\ sreq' = [sreq EXCEPT ![w] = [pc |-> "validated",
                                            username |-> username, email |-> email]]
            /\ UNCHANGED resp
       ELSE /\ resp' = SignupResp(username, email, 400, r, "none")
            /\ UNCHANGED sreq
    /\ UNCHANGED <<users, nextPk, now, outbox, contentVars, catalog>>

\* user.email_user(subject, message) and the response: the mail backend
\* takes the message, or raises and the exception leaves the view
SendCode(user, sent) ==
    IF sent
    THEN /\ outbox' = outbox \cup {[to |-> user.email, username |-> user.username,
                                    code |-> make_token(user, now)]}
         /\ resp' = SignupResp(user.username, user.email, 200, "none", "sent")
    ELSE /\ outbox' = outbox
         /\ resp' = SignupResp(user.username, user.email, 500, "SMTPException", "failed")

\* self.perform_create(serializer): UserSignupSerializer.create, then the
\* 200 response
SignupCreate(w) ==
    /\ sreq[w].pc = "validated"
    /\ sreq' = [sreq EXCEPT ![w] = [pc |-> "idle"]]
    /\ LET username == sreq[w].username
           email == sreq[w].email
           r == get_or_create(users, username, email)
       IN
       CASE r.result = "got" ->
              LET user == CHOOSE x \in Lookup(users, username, email) : TRUE
                  saved == [user EXCEPT !.is_active = TRUE]
              IN /\ users' = (users \ {user}) \cup {saved}
                 /\ nextPk' = nextPk
                 /\ \E sent \in BOOLEAN : SendCode(saved, sent)
         [] r.result = "created" ->
              LET user == NewUser(nextPk, username, email)
              IN /\ users' = users \cup {user}
                 /\ nextPk' = nextPk + 1
                 /\ \E sent \in BOOLEAN : SendCode(user, sent)
         [] OTHER ->
              /\ resp' = SignupResp(username, email, 500, "IntegrityError", "none")
              /\ UNCHANGED <<users, nextPk, outbox>>
    /\ UNCHANGED <<now, contentVars, catalog>>

----------------------------------------------------------------------------
(* POST /token: UserTokenView (CreateAPIView.create) *)

\* A hash no user state produces: a code that is not one of the generator's
WrongHash == <<0, 0, "", 0>>

\* What a client can submit: a code that was mailed (to anyone), a mailed
\* code with its timestamp replaced by the current one, or anything else
Codes ==
    {o.code : o \in outbox}
    \cup {[ts |-> now, hash |-> h] :
            h \in {o.code.hash : o \in outbox} \cup {WrongHash}}

\* validate() answering ValidationError before the user is looked up
validate_check_first(us, username, code, t) ==
    IF ~HasUser(us, username) \/ ~check_token(UserByName(us, username), code, t)
    THEN "ValidationError"
    ELSE "ok"

\* validate() checking the code against every user, not the one named
validate_any_user(us, username, code, t) ==
    IF ~HasUser(us, username) THEN "NotFound"
    ELSE IF \E x \in us : check_token(x, code, t) THEN "ok"
    ELSE "ValidationError"

\* UserTokenSerializer.validate
UserTokenSerializer_validate(us, username, code, t) ==
    IF ~HasUser(us, username) THEN "NotFound"
    ELSE IF check_token(UserByName(us, username), code, t) THEN "ok"
    ELSE "ValidationError"

\* Minting a token that records the login on the user row
for_user_updates_last_login(us, obj, t) ==
    (us \ {obj}) \cup {[obj EXCEPT !.last_login = t + 1]}

\* RefreshToken.for_user(obj): what minting the token does to the User table
for_user(us, obj, t) == us

\* UserTokenSerializer.get_token: the access token's identity claim
get_token(us, obj) ==
    [user_id |-> obj.pk]

TokenResp(username, code, status, error, token) ==
    [op |-> "token", username |-> username, code |-> code,
     status |-> status, error |-> error, token |-> token]

NoToken == [user_id |-> 0]

ExchangeCode(username, code) ==
    /\ LET r == UserTokenSerializer_validate(users, username, code, now) IN
       IF r = "ok"
       THEN LET obj == UserByName(users, username) IN
            /\ users' = for_user(users, obj, now)
            /\ resp' = TokenResp(username, code, 201, "none", get_token(users, obj))
       ELSE /\ resp' = TokenResp(username, code, IF r = "NotFound" THEN 404 ELSE 400,
                                 r, NoToken)
            /\ UNCHANGED users
    /\ UNCHANGED <<nextPk, now, outbox, sreq, contentVars, catalog>>

----------------------------------------------------------------------------
(* Callers and permission classes *)

\* request.user: 0 is AnonymousUser, otherwise the pk of the token's user
Callers == {0} \cup {x.pk : x \in users}

Role(caller) ==
    IF \E x \in users : x.pk = caller
    THEN (CHOOSE x \in users : x.pk = caller).role
    ELSE "anonymous"

SAFE_METHODS == {"GET"}

\* rest_framework.permissions.IsAuthenticatedOrReadOnly.has_permission
IsAuthenticatedOrReadOnly(method, caller) ==
    method \in SAFE_METHODS \/ caller # 0

\* permissions.ReviewAndComment.has_permission: creation is left to the
\* authenticated-or-read-only gate composed ahead of it
ReviewAndComment_has_permission(method, caller) == TRUE

\* permissions.ReviewAndComment.has_object_permission
ReviewAndComment_has_object_permission(method, caller, author) ==
    \/ method \in SAFE_METHODS
    \/ Role(caller) = "admin"
    \/ Role(caller) = "moderator"
    \/ (caller # 0 /\ author = caller)

\* permissions.IsAdminOrReadOnly.has_permission
IsAdminOrReadOnly(method, caller) ==
    method \in SAFE_METHODS \/ Role(caller) = "admin"

\* APIView.check_permissions over ReviewViewSet.permission_classes and
\* CommentViewSet.permission_classes: every class must allow
ReviewCommentPermissions(method, caller) ==
    /\ IsAuthenticatedOrReadOnly(method, caller)
    /\ ReviewAndComment_has_permission(method, caller)

\* permission_classes without ReviewAndComment
object_permissions_gate_only(method, caller, author) ==
    IsAuthenticatedOrReadOnly(method, caller)

\* APIView.check_object_permissions over the same classes
ReviewCommentObjectPermissions(method, caller, author) ==
    /\ IsAuthenticatedOrReadOnly(method, caller)
    /\ ReviewAndComment_has_object_permission(method, caller, author)

\* permission_classes of the review views on a catalog view
permissions_authenticated_or_read_only(method, caller) ==
    IsAuthenticatedOrReadOnly(method, caller)

\* APIView.check_permissions over the permission_classes of TitleViewSet,
\* CategoryViewSet and GenreViewSet
CatalogPermissions(method, caller) ==
    IsAdminOrReadOnly(method, caller)

\* APIView.permission_denied: 401 without credentials, 403 with
Denied(caller) == IF caller = 0 THEN 401 ELSE 403

\* The response, with what the request was: the caller's role, whether it
\* addressed a stored review or comment and whether the caller is its
\* author (target: the author of the addressed row, 0 when there is none)
ContentResp(kind, method, caller, target, status, error) ==
    [op |-> "content", kind |-> kind, method |-> method,
     role |-> Role(caller), found |-> target # 0,
     owner |-> (target # 0 /\ target = caller),
     status |-> status, error |-> error]

HasTitle(t) == \E x \in catalog["title"] : x.key = t

----------------------------------------------------------------------------
(* /titles/{title_id}/reviews/: ReviewViewSet *)

Texts == {"v1", "v2"}
TitleIds == 1..MaxTitles
ReviewIds == 1..MaxReviews
CommentIds == 1..MaxComments

\* The title_id of the review and comment routes: title 1, which is in the
\* catalog, and title 2, which is not
RouteTitles == {1, 2}

\* ReviewSerializer.validate
ReviewSerializer_validate(rs, method, title_id, author) ==
    IF method = "POST" /\ (\E r \in rs : r.title = title_id /\ r.author = author)
    THEN "ValidationError"
    ELSE "ok"

\* The unique constraint of the Review table on (title, author)
StoreAcceptsReview(rs, title_id, author) ==
    \A r \in rs : ~(r.title = title_id /\ r.author = author)

\* ReviewViewSet.get_queryset, then get_object's lookup by pk
TitleReviews(t) == {r \in reviews : r.title = t}

\* The author of the review the route /titles/t/reviews/id/ addresses
ReviewAuthor(t, id) ==
    IF HasTitle(t) /\ \E r \in TitleReviews(t) : r.id = id
    THEN (CHOOSE r \in TitleReviews(t) : r.id = id).author
    ELSE 0

\* GET list: check_permissions, get_queryset
ReviewList(caller, t) ==
    /\ resp' = IF ~ReviewCommentPermissions("GET", caller)
               THEN ContentResp("review", "GET", caller, 0, Denied(caller), "denied")
               ELSE IF ~HasTitle(t)
               THEN ContentResp("review", "GET", caller, 0, 404, "NotFound")
               ELSE ContentResp("review", "GET", caller, 0, 200, "none")
    /\ UNCHANGED <<authVars, contentVars, catalog>>

\* GET detail: check_permissions, get_object with check_object_permissions
ReviewRetrieve(caller, t, id) ==
    /\ resp' = IF ~ReviewCommentPermissions("GET", caller)
               THEN ContentResp("review", "GET", caller, ReviewAuthor(t, id), Denied(caller), "denied")
               ELSE IF ~HasTitle(t) \/ ~\E r \in TitleReviews(t) : r.id = id
               THEN ContentResp("review", "GET", caller, ReviewAuthor(t, id), 404, "NotFound")
               ELSE LET r == CHOOSE r \in TitleReviews(t) : r.id = id IN
                    IF ~ReviewCommentObjectPermissions("GET", caller, r.author)
                    THEN ContentResp("review", "GET", caller, ReviewAuthor(t, id), Denied(caller), "denied")
                    ELSE ContentResp("review", "GET", caller, ReviewAuthor(t, id), 200, "none")
    /\ UNCHANGED <<authVars, contentVars, catalog>>

\* POST, first half: check_permissions, then serializer.is_valid()
ReviewCreateValidate(w, caller, t) ==
    /\ rreq[w].pc = "idle"
    /\ IF ~ReviewCommentPermissions("POST", caller)
       THEN /\ resp' = ContentResp("review", "POST", caller, 0, Denied(caller), "denied")
            /\ UNCHANGED rreq
       ELSE IF ReviewSerializer_validate(reviews, "POST", t, caller) # "ok"
       THEN /\ resp' = ContentResp("review", "POST", caller, 0, 400, "ValidationError")
            /\ UNCHANGED rreq
       ELSE /\ rreq' = [rreq EXCEPT ![w] = [pc |-> "validated", caller |-> caller,
                                            title |-> t]]
            /\ UNCHANGED resp
    /\ UNCHANGED <<authVars, reviews, comments, nextId, catalog>>

\* POST, second half: ReviewViewSet.perform_create and the 201 response
ReviewCreateSave(w) ==
    /\ rreq[w].pc = "validated"
    /\ (HasTitle(rreq[w].title) /\ StoreAcceptsReview(reviews, rreq[w].title, rreq[w].caller))
          => nextId["review"] <= MaxReviews
    /\ rreq' = [rreq EXCEPT ![w] = [pc |-> "idle"]]
    /\ LET caller == rreq[w].caller
           t == rreq[w].title
       IN
       IF ~HasTitle(t)
       THEN /\ resp' = ContentResp("review", "POST", caller, 0, 404, "NotFound")
            /\ UNCHANGED <<reviews, nextId>>
       ELSE IF ~StoreAcceptsReview(reviews, t, caller)
       THEN /\ resp' = ContentResp("review", "POST", caller, 0, 500, "IntegrityError")
            /\ UNCHANGED <<reviews, nextId>>
       ELSE /\ reviews' = reviews \cup {[id |-> nextId["review"], title |-> t,
                                         author |-> caller, text |-> "v1"]}
            /\ nextId' = [nextId EXCEPT !["review"] = @ + 1]
            /\ resp' = ContentResp("review", "POST", caller, 0, 201, "none")
    /\ UNCHANGED <<authVars, comments, catalog>>

\* PATCH detail: check_permissions, get_object, is_valid, perform_update
ReviewUpdate(caller, t, id, text) ==
    /\ IF ~ReviewCommentPermissions("PATCH", caller)
       THEN /\ resp' = ContentResp("review", "PATCH", caller, ReviewAuthor(t, id), Denied(caller), "denied")
            /\ UNCHANGED reviews
       ELSE IF ~HasTitle(t) \/ ~\E r \in TitleReviews(t) : r.id = id
       THEN /\ resp' = ContentResp("review", "PATCH", caller, ReviewAuthor(t, id), 404, "NotFound")
            /\ UNCHANGED reviews
       ELSE LET r == CHOOSE r \in TitleReviews(t) : r.id = id IN
            IF ~ReviewCommentObjectPermissions("PATCH", caller, r.author)
            THEN /\ resp' = ContentResp("review", "PATCH", caller, ReviewAuthor(t, id), Denied(caller), "denied")
                 /\ UNCHANGED reviews
            ELSE /\ reviews' = (reviews \ {r}) \cup {[r EXCEPT !.text = text]}
                 /\ resp' = ContentResp("review", "PATCH", caller, ReviewAuthor(t, id), 200, "none")
    /\ UNCHANGED <<authVars, comments, nextId, rreq, catalog>>

\* DELETE detail: check_permissions, get_object, perform_destroy; the
\* review's comments go with it
ReviewDestroy(caller, t, id) ==
    /\ IF ~ReviewCommentPermissions("DELETE", caller)
       THEN /\ resp' = ContentResp("review", "DELETE", caller, ReviewAuthor(t, id), Denied(caller), "denied")
            /\ UNCHANGED <<reviews, comments>>
       ELSE IF ~HasTitle(t) \/ ~\E r \in TitleReviews(t) : r.id = id
       THEN /\ resp' = ContentResp("review", "DELETE", caller, ReviewAuthor(t, id), 404, "NotFound")
            /\ UNCHANGED <<reviews, comments>>
       ELSE LET r == CHOOSE r \in TitleReviews(t) : r.id = id IN
            IF ~ReviewCommentObjectPermissions("DELETE", caller, r.author)
            THEN /\ resp' = ContentResp("review", "DELETE", caller, ReviewAuthor(t, id), Denied(caller), "denied")
                 /\ UNCHANGED <<reviews, comments>>
            ELSE /\ reviews' = reviews \ {r}
                 /\ comments' = {c \in comments : c.review # r.id}
                 /\ resp' = ContentResp("review", "DELETE", caller, ReviewAuthor(t, id), 204, "none")
    /\ UNCHANGED <<authVars, nextId, rreq, catalog>>

----------------------------------------------------------------------------
(* /titles/{title_id}/reviews/{review_id}/comments/: CommentViewSet *)

\* get_object_or_404(Review, id=review_id, title=title_id)
HasReview(t, rid) == \E r \in reviews : r.id = rid /\ r.title = t

\* CommentViewSet.get_queryset, over a review that exists
ReviewComments(rid) == {c \in comments : c.review = rid}

\* The author of the comment the route .../reviews/rid/comments/id/ addresses
CommentAuthor(t, rid, id) ==
    IF HasReview(t, rid) /\ \E c \in ReviewComments(rid) : c.id = id
    THEN (CHOOSE c \in ReviewComments(rid) : c.id = id).author
    ELSE 0

\* GET list and GET detail
CommentRead(caller, t, rid, id, detail) ==
    /\ resp' = IF ~ReviewCommentPermissions("GET", caller)
               THEN ContentResp("comment", "GET", caller, IF detail THEN CommentAuthor(t, rid, id) ELSE 0, Denied(caller), "denied")
               ELSE IF ~HasReview(t, rid)
               THEN ContentResp("comment", "GET", caller, IF detail THEN CommentAuthor(t, rid, id) ELSE 0, 404, "NotFound")
               ELSE IF ~detail
               THEN ContentResp("comment", "GET", caller, IF detail THEN CommentAuthor(t, rid, id) ELSE 0, 200, "none")
               ELSE IF ~\E c \in ReviewComments(rid) : c.id = id
               THEN ContentResp("comment", "GET", caller, IF detail THEN CommentAuthor(t, rid, id) ELSE 0, 404, "NotFound")
               ELSE LET c == CHOOSE c \in ReviewComments(rid) : c.id = id IN
                    IF ~ReviewCommentObjectPermissions("GET", caller, c.author)
                    THEN ContentResp("comment", "GET", caller, IF detail THEN CommentAuthor(t, rid, id) ELSE 0, Denied(caller), "denied")
                    ELSE ContentResp("comment", "GET", caller, IF detail THEN CommentAuthor(t, rid, id) ELSE 0, 200, "none")
    /\ UNCHANGED <<authVars, contentVars, catalog>>

\* POST: check_permissions, is_valid, CommentViewSet.perform_create
CommentCreate(caller, t, rid) ==
    /\ nextId["comment"] <= MaxComments
    /\ IF ~ReviewCommentPermissions("POST", caller)
       THEN /\ resp' = ContentResp("comment", "POST", caller, 0, Denied(caller), "denied")
            /\ UNCHANGED <<comments, nextId>>
       ELSE IF ~HasReview(t, rid)
       THEN /\ resp' = ContentResp("comment", "POST", caller, 0, 404, "NotFound")
            /\ UNCHANGED <<comments, nextId>>
       ELSE /\ comments' = comments \cup {[id |-> nextId["comment"], review |-> rid,
                                           author |-> caller, text |-> "v1"]}
            /\ nextId' = [nextId EXCEPT !["comment"] = @ + 1]
            /\ resp' = ContentResp("comment", "POST", caller, 0, 201, "none")
    /\ UNCHANGED <<authVars, reviews, rreq, catalog>>

\* PATCH detail
CommentUpdate(caller, t, rid, id, text) ==
    /\ IF ~ReviewCommentPermissions("PATCH", caller)
       THEN /\ resp' = ContentResp("comment", "PATCH", caller, CommentAuthor(t, rid, id), Denied(caller), "denied")
            /\ UNCHANGED comments
       ELSE IF ~HasReview(t, rid) \/ ~\E c \in ReviewComments(rid) : c.id = id
       THEN /\ resp' = ContentResp("comment", "PATCH", caller, CommentAuthor(t, rid, id), 404, "NotFound")
            /\ UNCHANGED comments
       ELSE LET c == CHOOSE c \in ReviewComments(rid) : c.id = id IN
            IF ~ReviewCommentObjectPermissions("PATCH", caller, c.author)
            THEN /\ resp' = ContentResp("comment", "PATCH", caller, CommentAuthor(t, rid, id), Denied(caller), "denied")
                 /\ UNCHANGED comments
            ELSE /\ comments' = (comments \ {c}) \cup {[c EXCEPT !.text = text]}
                 /\ resp' = ContentResp("comment", "PATCH", caller, CommentAuthor(t, rid, id), 200, "none")
    /\ UNCHANGED <<authVars, reviews, nextId, rreq, catalog>>

\* DELETE detail
CommentDestroy(caller, t, rid, id) ==
    /\ IF ~ReviewCommentPermissions("DELETE", caller)
       THEN /\ resp' = ContentResp("comment", "DELETE", caller, CommentAuthor(t, rid, id), Denied(caller), "denied")
            /\ UNCHANGED comments
       ELSE IF ~HasReview(t, rid) \/ ~\E c \in ReviewComments(rid) : c.id = id
       THEN /\ resp' = ContentResp("comment", "DELETE", caller, CommentAuthor(t, rid, id), 404, "NotFound")
            /\ UNCHANGED comments
       ELSE LET c == CHOOSE c \in ReviewComments(rid) : c.id = id IN
            IF ~ReviewCommentObjectPermissions("DELETE", caller, c.author)
            THEN /\ resp' = ContentResp("comment", "DELETE", caller, CommentAuthor(t, rid, id), Denied(caller), "denied")
                 /\ UNCHANGED comments
            ELSE /\ comments' = comments \ {c}
                 /\ resp' = ContentResp("comment", "DELETE", caller, CommentAuthor(t, rid, id), 204, "none")
    /\ UNCHANGED <<authVars, reviews, nextId, rreq, catalog>>

----------------------------------------------------------------------------
(* /titles/, /categories/, /genres/: TitleViewSet, CategoryViewSet, GenreViewSet *)

Kinds == {"title", "category", "genre"}
SlugKinds == {"category", "genre"}
Slugs == {"s1", "s2"}
Names == {"n1", "n2"}

HasKey(kind, key) == \E x \in catalog[kind] : x.key = key

\* GET list of any of the three view sets
CatalogList(caller, kind) ==
    /\ resp' = IF ~CatalogPermissions("GET", caller)
               THEN ContentResp(kind, "GET", caller, 0, Denied(caller), "denied")
               ELSE ContentResp(kind, "GET", caller, 0, 200, "none")
    /\ UNCHANGED <<authVars, contentVars, catalog>>

\* GET detail of TitleViewSet
TitleRetrieve(caller, id) ==
    /\ resp' = IF ~CatalogPermissions("GET", caller)
               THEN ContentResp("title", "GET", caller, 0, Denied(caller), "denied")
               ELSE IF ~HasKey("title", id)
               THEN ContentResp("title", "GET", caller, 0, 404, "NotFound")
               ELSE ContentResp("title", "GET", caller, 0, 200, "none")
    /\ UNCHANGED <<authVars, contentVars, catalog>>

\* POST of TitleViewSet
TitleCreate(caller, name) ==
    /\ nextId["title"] <= MaxTitles
    /\ IF ~CatalogPermissions("POST", caller)
       THEN /\ resp' = ContentResp("title", "POST", caller, 0, Denied(caller), "denied")
            /\ UNCHANGED <<catalog, nextId>>
       ELSE /\ catalog' = [catalog EXCEPT !["title"] =
                              @ \cup {[key |-> nextId["title"], name |-> name]}]
            /\ nextId' = [nextId EXCEPT !["title"] = @ + 1]
            /\ resp' = ContentResp("title", "POST", caller, 0, 201, "none")
    /\ UNCHANGED <<authVars, reviews, comments, rreq>>

\* POST of CategoryViewSet and GenreViewSet (CreateModelMixin); the slug is
\* the lookup key of the rows
SlugCreate(caller, kind, slug) ==
    /\ IF ~CatalogPermissions("POST", caller)
       THEN /\ resp' = ContentResp(kind, "POST", caller, 0, Denied(caller), "denied")
            /\ UNCHANGED catalog
       ELSE IF HasKey(kind, slug)
       THEN /\ resp' = ContentResp(kind, "POST", caller, 0, 400, "ValidationError")
            /\ UNCHANGED catalog
       ELSE /\ catalog' = [catalog EXCEPT ![kind] = @ \cup {[key |-> slug, name |-> "n1"]}]
            /\ resp' = ContentResp(kind, "POST", caller, 0, 201, "none")
    /\ UNCHANGED <<authVars, contentVars>>

\* PATCH detail of TitleViewSet
TitleUpdate(caller, id, name) ==
    /\ IF ~CatalogPermissions("PATCH", caller)
       THEN /\ resp' = ContentResp("title", "PATCH", caller, 0, Denied(caller), "denied")
            /\ UNCHANGED catalog
       ELSE IF ~HasKey("title", id)
       THEN /\ resp' = ContentResp("title", "PATCH", caller, 0, 404, "NotFound")
            /\ UNCHANGED catalog
       ELSE /\ catalog' = [catalog EXCEPT !["title"] =
                              {IF x.key = id THEN [x EXCEPT !.name = name] ELSE x : x \in @}]
            /\ resp' = ContentResp("title", "PATCH", caller, 0, 200, "none")
    /\ UNCHANGED <<authVars, contentVars>>

\* DELETE detail of any of the three view sets (DestroyModelMixin); a
\* title's reviews and their comments go with it
CatalogDestroy(caller, kind, key) ==
    /\ IF ~CatalogPermissions("DELETE", caller)
       THEN /\ resp' = ContentResp(kind, "DELETE", caller, 0, Denied(caller), "denied")
            /\ UNCHANGED <<catalog, reviews, comments>>
       ELSE IF ~HasKey(kind, key)
       THEN /\ resp' = ContentResp(kind, "DELETE", caller, 0, 404, "NotFound")
            /\ UNCHANGED <<catalog, reviews, comments>>
       ELSE /\ catalog' = [catalog EXCEPT ![kind] = {x \in @ : x.key # key}]
            /\ IF kind = "title"
               THEN /\ reviews' = {r \in reviews : r.title # key}
                    /\ comments' = {c \in comments :
                                      \E r \in reviews : r.id = c.review /\ r.title # key}
               ELSE UNCHANGED <<reviews, comments>>
            /\ resp' = ContentResp(kind, "DELETE", caller, 0, 204, "none")
    /\ UNCHANGED <<authVars, nextId, rreq>>

\* GET detail and PATCH detail of CategoryViewSet and GenreViewSet, which
\* CreateListDeleteViewSet gives no handler: 405, after check_permissions
SlugMethodNotAllowed(caller, kind, method) ==
    /\ resp' = IF ~CatalogPermissions(method, caller)
               THEN ContentResp(kind, method, caller, 0, Denied(caller), "denied")
               ELSE ContentResp(kind, method, caller, 0, 405, "MethodNotAllowed")
    /\ UNCHANGED <<authVars, contentVars, catalog>>

----------------------------------------------------------------------------
(* The content subsystem, over a populated User table *)

SeedUser(pk, username, email, role) ==
    [pk |-> pk, username |-> username, email |-> email,
     is_active |-> TRUE, last_login |-> 0, role |-> role]

\* Two users, a moderator and an admin are registered and hold access
\* tokens; title 1 is in the catalog
InitContent ==
    /\ users = {SeedUser(1, "alice", "a@x.com", "user"),
                SeedUser(2, "bob", "b@x.com", "user"),
                SeedUser(3, "carol", "c@x.com", "moderator"),
                SeedUser(4, "dave", "d@x.com", "admin")}
    /\ nextPk = 5
    /\ now = 0
    /\ outbox = {}
    /\ sreq = [w \in Workers |-> [pc |-> "idle"]]
    /\ reviews = {}
    /\ comments = {}
    /\ nextId = [k \in {"title", "review", "comment"} |-> IF k = "title" THEN 2 ELSE 1]
    /\ rreq = [w \in Workers |-> [pc |-> "idle"]]
    /\ catalog = [k \in Kinds |-> IF k = "title" THEN {[key |-> 1, name |-> "n1"]} ELSE {}]
    /\ resp = [op |-> "none"]

\* Review and comment requests, the reviews created one at a time (by worker 1)
NextReviews ==
    \/ \E c \in Callers, t \in RouteTitles : ReviewList(c, t)
    \/ \E c \in Callers, t \in RouteTitles, id \in ReviewIds : ReviewRetrieve(c, t, id)
    \/ \E c \in Callers, t \in RouteTitles : ReviewCreateValidate(1, c, t)
    \/ ReviewCreateSave(1)
    \/ \E c \in Callers, t \in RouteTitles, id \in ReviewIds, x \in Texts :
          ReviewUpdate(c, t, id, x)
    \/ \E c \in Callers, t \in RouteTitles, id \in ReviewIds : ReviewDestroy(c, t, id)
    \/ \E c \in Callers, t \in RouteTitles, rid \in ReviewIds, id \in CommentIds, d \in BOOLEAN :
          CommentRead(c, t, rid, id, d)
    \/ \E c \in Callers, t \in RouteTitles, rid \in ReviewIds : CommentCreate(c, t, rid)
    \/ \E c \in Callers, t \in RouteTitles, rid \in ReviewIds, id \in CommentIds, x \in Texts :
          CommentUpdate(c, t, rid, id, x)
    \/ \E c \in Callers, t \in RouteTitles, rid \in ReviewIds, id \in CommentIds :
          CommentDestroy(c, t, rid, id)

SpecReviews == InitContent /\ [][NextReviews]_vars

\* Concurrent create-review requests, and deletions
NextReviewRace ==
    \/ \E w \in Workers, c \in Callers, t \in RouteTitles : ReviewCreateValidate(w, c, t)
    \/ \E w \in Workers : ReviewCreateSave(w)
    \/ \E c \in Callers, t \in RouteTitles, id \in ReviewIds : ReviewDestroy(c, t, id)

SpecReviewRace == InitContent /\ [][NextReviewRace]_vars

NextCatalog ==
    \/ \E c \in Callers, k \in Kinds : CatalogList(c, k)
    \/ \E c \in Callers, id \in TitleIds : TitleRetrieve(c, id)
    \/ \E c \in Callers, n \in Names : TitleCreate(c, n)
    \/ \E c \in Callers, k \in SlugKinds, s \in Slugs : SlugCreate(c, k, s)
    \/ \E c \in Callers, id \in TitleIds, n \in Names : TitleUpdate(c, id, n)
    \/ \E c \in Callers, id \in TitleIds : CatalogDestroy(c, "title", id)
    \/ \E c \in Callers, k \in SlugKinds, s \in Slugs : CatalogDestroy(c, k, s)
    \/ \E c \in Callers, k \in SlugKinds, m \in {"GET", "PATCH"} : SlugMethodNotAllowed(c, k, m)

SpecCatalog == InitContent /\ [][NextCatalog]_vars

----------------------------------------------------------------------------
(* Claims about reviews, comments and the catalog *)

\* A request is allowed when it is answered neither 401 nor 403
Allowed(r) == r.status \notin {401, 403}

\* C3 (as claimed): there is at most one Review per (title, author), and a
\* create-review request by an authenticated caller on an existing title
\* that stores no review fails with ValidationError (400), also when two
\* requests of one author interleave their existence check and their insert.
C3_DuplicateReviewRejected ==
    /\ \A r1 \in reviews, r2 \in reviews :
          (r1.title = r2.title /\ r1.author = r2.author) => r1 = r2
    /\ (resp.op = "content" /\ resp.kind = "review" /\ resp.method = "POST"
          /\ resp.status \notin {201, 401, 403, 404})
       => (resp.status = 400 /\ resp.error = "ValidationError")

\* C7: on the review and comment endpoints every read is allowed for every
\* caller, anonymous included; creation is allowed iff the caller is
\* authenticated; update or delete of an existing review or comment is
\* allowed iff the caller is authenticated and is admin, moderator or the
\* resource's author; a refused request leaves both tables as they were.
C7_ReviewCommentAccess ==
    /\ [](resp.op = "content" /\ resp.kind \in {"review", "comment"} =>
            CASE resp.method = "GET" -> Allowed(resp)
              [] resp.method = "POST" -> (Allowed(resp) <=> resp.role # "anonymous")
              [] OTHER ->
                   resp.found =>
                      (Allowed(resp) <=>
                          /\ resp.role # "anonymous"
                          /\ resp.role \in {"admin", "moderator"} \/ resp.owner))
    /\ [][(resp'.op = "content" /\ ~Allowed(resp')) => UNCHANGED <<reviews, comments>>]_vars

\* Witness of C7: a caller of role user was refused (403) the update or
\* delete of a stored review of another author, and a comment is stored too.
C7_Witness ==
    /\ resp.op = "content" /\ resp.kind = "review"
    /\ resp.method \in {"PATCH", "DELETE"} /\ resp.status = 403
    /\ resp.role = "user" /\ resp.found /\ ~resp.owner
    /\ reviews # {} /\ comments # {}

\* C8: on the title, category and genre endpoints every read is allowed for
\* every caller, anonymous included; every create, update and delete is
\* allowed iff the caller's role is admin; a refused request leaves the
\* catalog as it was.
C8_CatalogAccess ==
    /\ [](resp.op = "content" /\ resp.kind \in Kinds =>
            IF resp.method = "GET"
            THEN Allowed(resp)
            ELSE Allowed(resp) <=> resp.role = "admin")
    /\ [][(resp'.op = "content" /\ ~Allowed(resp')) => UNCHANGED catalog]_vars

\* Witness of C8: after the admin added a category, a create on the
\* category endpoint by a moderator was refused.
C8_Witness ==
    /\ resp.op = "content" /\ resp.kind = "category"
    /\ resp.method = "POST" /\ resp.status = 403 /\ resp.role = "moderator"
    /\ catalog["category"] # {}

----------------------------------------------------------------------------
(* The authentication subsystem *)

\* Concurrent signups, token exchanges and the clock
Next ==
    \/ Tick
    \/ \E w \in Workers, u \in Usernames, e \in Emails : SignupValidate(w, u, e)
    \/ \E w \in Workers : SignupCreate(w)
    \/ \E u \in Usernames, c \in Codes : ExchangeCode(u, c)

Spec == Init /\ [][Next]_vars

\* Concurrent signups alone
NextSignup ==
    \/ \E w \in Workers, u \in Usernames, e \in Emails : SignupValidate(w, u, e)
    \/ \E w \in Workers : SignupCreate(w)

SpecSignup == Init /\ [][NextSignup]_vars

\* Signups served one at a time (by worker 1), token exchanges and the clock
NextToken ==
    \/ Tick
    \/ \E u \in Usernames, e \in Emails : SignupValidate(1, u, e)
    \/ SignupCreate(1)
    \/ \E u \in Usernames, c \in Codes : ExchangeCode(u, c)

SpecToken == Init /\ [][NextToken]_vars

\* The codes mailed by signups of username u, and the last of them
IssuedTo(u) == {o.code : o \in {m \in outbox : m.username = u}}

IsLatest(u, c) == c \in IssuedTo(u) /\ \A d \in IssuedTo(u) : d.ts <= c.ts

----------------------------------------------------------------------------
(* Claims about signup and token exchange *)

\* C1 (as claimed): once a later signup of U has issued a code, the codes
\* issued by earlier signups of U no longer pass the check of ExchangeCode:
\* only the most recently issued code for U verifies.
C1_OnlyLatestCodeVerifies ==
    \A o \in outbox :
        (HasUser(users, o.username) /\ ~IsLatest(o.username, o.code))
            => UserTokenSerializer_validate(users, o.username, o.code, now) # "ok"

C4_UsernameAndEmailUnique ==
    \A x \in users, y \in users :
        x # y => (x.username # y.username /\ x.email # y.email /\ x.pk # y.pk)

\* Witness of C4: a signup that passed its pre-checks lost the race: its
\* insert was refused while another row holds its username or email.
C4_Witness ==
    /\ resp.op = "signup" /\ resp.error = "IntegrityError"
    /\ \E x \in users : x.username = resp.username \/ x.email = resp.email

\* C5: a signup whose username is "me", or whose email belongs to a user of
\* another username, or whose username belongs to a user of another email,
\* is rejected with ValidationError; the rejection changes no user row and
\* mails no code.
C5_SignupRejected ==
    [][\A w \in Workers, u \in Usernames, e \in Emails :
          (/\ SignupValidate(w, u, e)
           /\ \/ u = "me"
              \/ \E x \in users : x.email = e /\ x.username # u
              \/ \E x \in users : x.username = u /\ x.email # e)
          => /\ resp'.op = "signup" /\ resp'.username = u /\ resp'.email = e
             /\ resp'.status = 400 /\ resp'.error = "ValidationError"
             /\ sreq'[w].pc = "idle"
             /\ UNCHANGED <<users, nextPk, outbox>>]_vars

\* Witness of C5: a signup was rejected for a collision with a stored user.
C5_Witness ==
    /\ resp.op = "signup" /\ resp.status = 400 /\ resp.username # "me"
    /\ \E x \in users : (x.username = resp.username) # (x.email = resp.email)

C9_ExchangedCodeStaysValid ==
    (resp.op = "token" /\ resp.status = 201) =>
        UserTokenSerializer_validate(users, resp.username, resp.code, now) = "ok"

\* C9 (amended): ExchangeCode leaves the User table and the mailed codes
\* unchanged, on success as on failure; a code that was exchanged
\* successfully is accepted again by a later ExchangeCode for the same user
\* as long as no signup or user change happens in between and the code is
\* not older than the token timeout.
C9_ExchangeChangesNothing ==
    /\ [][(resp'.op = "token" /\ ExchangeCode(resp'.username, resp'.code))
             => UNCHANGED <<users, nextPk, outbox>>]_vars
    /\ []((resp.op = "token" /\ resp.status = 201 /\ now - resp.code.ts <= Timeout)
            => UserTokenSerializer_validate(users, resp.username, resp.code, now) = "ok")

\* Witness of C9: after a successful exchange the clock has advanced and the
\* code is still within the timeout.
C9_Witness ==
    /\ resp.op = "token" /\ resp.status = 201
    /\ now > resp.code.ts /\ now - resp.code.ts <= Timeout

\* C10 (as claimed): a signup that passed validation and whose mail dispatch
\* failed is answered with the success response, and its user row is stored.
C10_MailFailureNotSurfaced ==
    (resp.op = "signup" /\ resp.mail = "failed") =>
        /\ resp.status = 200
        /\ \E x \in users : x.username = resp.username /\ x.email = resp.email
====
